---------------------------- MODULE Spec2Model ----------------------------
(***************************************************************************)
(* QuickGrab escrow transactions: the route handlers that move a           *)
(* transaction through its statuses (pay, meetup, confirm-delivery,        *)
(* mark-paid, mark-received) and the message route, over a store of        *)
(* transactions, items, users and messages.                                *)
(*                                                                         *)
(* Every handler is an async function: it reads the transaction with       *)
(* prisma.transaction.findUnique, checks the caller and the status on the  *)
(* copy it read, and then issues one or more prisma updates.  Each store   *)
(* call is awaited, so the steps of different requests interleave at the   *)
(* store calls; no handler wraps its calls in a store transaction.         *)
(***************************************************************************)
EXTENDS Integers, Sequences, FiniteSets, TLC

(***************************************************************************)
(* Bounds of the model.                                                    *)
(***************************************************************************)
\* the wall clock (milliseconds) runs from 0 to MaxClock
MaxClock == 1
\* at most MaxMessages messages are stored
MaxMessages == 1
\* mark-received is not asked for a user who has MaxDeals completed deals
MaxDeals == 2
\* at most MaxBatch messages are stored in the chats a pass of the notifier runs over
MaxBatch == 2
\* the contents previewed are up to MaxOver characters longer than the preview's cap
MaxOver == 2

(***************************************************************************)
(* The population: transaction t1 of buyer A on item i1 of seller B; C is   *)
(* a user who is no party to it.                                           *)
(***************************************************************************)
Users == {"A", "B", "C"}
NoUser == "none"
TxIds == {"t1"}
NoTx == "t0"
ItemIds == {"i1"}
Requests == {"r1", "r2"}
Null == "null"
PaymentIds == {"pay_1"}
Locations == {"gate"}
Contents == {<<"h", "i">>}

Statuses == {"REQUESTED", "ACCEPTED", "PAID", "MEETING", "COMPLETED", "CANCELLED", "REFUNDED"}

BuyerOf(t) == "A"
SellerOf(t) == "B"
ItemOf(t) == "i1"

\* pay/route.ts: the hours of the countdown, and the milliseconds of an hour
MEETUP_TIMEOUT_HOURS == 24
MsPerHour == 60 * 60 * 1000

VARIABLES
    tx,         \* store: transaction id -> Transaction row
    item,       \* store: item id -> availabilityStatus
    user,       \* store: user id -> User row
    messages,   \* store: the Message rows, in creation order
    now,        \* the wall clock, in milliseconds
    pc,         \* request -> where its handler stands
    req,        \* request -> what was asked (route, caller, id, body)
    snap,       \* request -> the rows its findUnique returned
    local,      \* request -> the handler's local values (countdownStart, countdownEnd)
    resp,       \* request -> the response sent
    received,   \* history: the transactions for which mark-received has answered 200
    notifier,   \* the MessageNotifier singleton of the browser: its private fields
    timers,     \* the interval timers of the browser that are set and not cleared
    hidden,     \* document.hidden
    tick,       \* tick -> where a run of checkForNewMessages stands
    withParties,\* whether the entries of the transaction list carry buyer and seller
    toast,      \* the toast shown last
    notified    \* history: transaction -> the position in the store of the newest
                \* message the session's last toast for it covered (0: no toast)

store == <<tx, item, user, messages>>
\* the browser's side: the routes leave it alone
client == <<notifier, timers, hidden, tick, withParties, toast, notified>>
vars == <<tx, item, user, messages, now, pc, req, snap, local, resp, received, client>>

(***************************************************************************)
(* Rationals, for User.cancellationRate: <<n, d>> is n/d in lowest terms.  *)
(***************************************************************************)
RECURSIVE Gcd(_, _)
Gcd(a, b) == IF b = 0 THEN a ELSE Gcd(b, a % b)

Rat(n, d) == IF n = 0 THEN <<0, 1>> ELSE <<n \div Gcd(n, d), d \div Gcd(n, d)>>

Min(a, b) == IF a < b THEN a ELSE b
Max(a, b) == IF a > b THEN a ELSE b

(***************************************************************************)
(* TrustScoreEngine (lib/services/trust-engine, imported by mark-received):*)
(* four capped components summed and clamped to 0..100, and the badge set  *)
(* implied by the statistics.  avgRating is a whole number of stars here.  *)
(***************************************************************************)
VerificationPoints == 20
RatingPoints == 40
DealPoints == 20
ReliabilityPoints == 20
DealHalfway == 5
BadgeDeals == 2
BadgeRating == 4

calculateTrustScore(verificationStatus, avgRating, completedDeals, cancellationRate) ==
    LET verification == IF verificationStatus = "VERIFIED" THEN VerificationPoints ELSE 0
        rating == (avgRating * RatingPoints) \div 5
        deals == Min(DealPoints, (DealPoints * completedDeals) \div (completedDeals + DealHalfway))
        reliability == (ReliabilityPoints * (cancellationRate[2] - cancellationRate[1]))
                           \div cancellationRate[2]
    IN  Max(0, Min(100, verification + rating + deals + reliability))

getEarnedBadges(completedDeals, avgRating, cancellationRate) ==
    (IF completedDeals >= BadgeDeals THEN {"TRUSTED_SELLER"} ELSE {})
        \cup (IF avgRating >= BadgeRating THEN {"TOP_RATED"} ELSE {})
        \cup (IF completedDeals >= 1 /\ cancellationRate[1] = 0 THEN {"RELIABLE"} ELSE {})

(***************************************************************************)
(* The rows of the store.                                                  *)
(***************************************************************************)
UserRow(verificationStatus, avgRating, completedDeals, cancellationRate, badges) ==
    [verificationStatus |-> verificationStatus,
     avgRating |-> avgRating,
     completedDeals |-> completedDeals,
     cancellationRate |-> cancellationRate,
     trustScore |-> calculateTrustScore(verificationStatus, avgRating,
                                        completedDeals, cancellationRate),
     badges |-> badges]

\* a transaction as the (external) request and accept routes, or a refund, leave it
TxRow(t, status) ==
    [id |-> t, buyerId |-> BuyerOf(t), sellerId |-> SellerOf(t), itemId |-> ItemOf(t),
     status |-> status,
     escrowAmount |-> 100,
     paymentId |-> IF status = "REFUNDED" THEN "pay_1" ELSE Null,
     meetupLocation |-> Null,
     countdownStart |-> IF status = "REFUNDED" THEN 0 ELSE Null,
     countdownEnd |-> IF status = "REFUNDED" THEN MEETUP_TIMEOUT_HOURS * MsPerHour ELSE Null]

\* the seller starts either fresh, or with one deal, half of his requests
\* cancelled, and a TOP_RATED badge from a time his rating was higher
SellerInits ==
    {UserRow("VERIFIED", 3, 0, <<0, 1>>, getEarnedBadges(0, 3, <<0, 1>>)),
     UserRow("VERIFIED", 3, 1, <<1, 2>>, {"TOP_RATED"})}

BuyerInit == UserRow("VERIFIED", 5, 0, <<0, 1>>, getEarnedBadges(0, 5, <<0, 1>>))

InitStatuses == {"REQUESTED", "ACCEPTED", "CANCELLED", "REFUNDED"}

NoReq == [kind |-> Null, caller |-> NoUser, tid |-> NoTx, wellFormed |-> FALSE, arg |-> Null]
NoSnap == [transaction |-> Null, seller |-> Null, buyer |-> Null, item |-> Null]
NoLocal == [countdownStart |-> Null, countdownEnd |-> Null]
NoResp == [code |-> 0, error |-> Null, status |-> Null]

(***************************************************************************)
(* The browser: the MessageNotifier singleton and its ticks.  Timestamps   *)
(* travel as ISO strings of millisecond precision (toISOString, JSON) and  *)
(* are parsed back by new Date: an instant here is its millisecond count.  *)
(***************************************************************************)
\* no instant: lastCheckTime before start, a transaction without timestamp
NoTime == -1

\* messages/new/route.ts: the milliseconds subtracted from ?after, and the page size
Window == 500
Take == 50

\* the instants the clock is read at: the second is more than a window after
\* the first
Instants == {0, Window + 1}

\* the users who log in on this browser, and the runs of checkForNewMessages
\* that can be under way together
PollerUsers == {"A", "B"}
Ticks == {"k1", "k2"}

\* the transactions a store of the notifier's specifications can hold, and
\* the order GET /api/transactions lists them in
ChatIds == {"t1", "t2"}
ListOrder == <<"t1", "t2">>

NoTick == [pc |-> "idle", token |-> Null, transactions |-> <<>>, lastKnownTime |-> NoTime,
           found |-> <<>>]
\* message-notifier.ts: the characters of the content a toast shows
PreviewCap == 50
Ellipsis == <<".", ".", ".">>

\* a preview that is marked and not cut
PreviewUncut(content) ==
    content \o (IF Len(content) > PreviewCap THEN Ellipsis ELSE <<>>)

\* content.substring(0, 50) + (content.length > 50 ? "..." : "")
Preview(content) ==
    SubSeq(content, 1, Min(Len(content), PreviewCap))
        \o (IF Len(content) > PreviewCap THEN Ellipsis ELSE <<>>)

\* a toast: its transaction (actionUrl), the sender named in its title, the
\* position in the store of the message previewed and the preview (message);
\* and, for the properties, the user the tick ran for and a bit that tells one
\* showing from the next
NoToast ==
    [transactionId |-> Null, sender |-> Null, message |-> 0, preview |-> <<>>,
     token |-> Null, flip |-> FALSE]

\* the fields of the singleton as constructed
NewNotifier ==
    [isRunning |-> FALSE,
     intervalId |-> Null,
     lastCheckTime |-> NoTime,
     currentUserId |-> Null,
     activeTransactionIds |-> {},
     lastMessageTimestamps |-> [t \in ChatIds |-> NoTime]]

\* the page is loaded and nobody has started the notifier
ClientInit ==
    /\ notifier = NewNotifier
    /\ timers = 0
    /\ hidden = FALSE
    /\ tick = [k \in Ticks |-> NoTick]
    /\ toast = NoToast
    /\ notified = [t \in ChatIds |-> 0]

Init ==
    /\ ClientInit /\ withParties = FALSE
    /\ \E status \in InitStatuses : tx = [t \in TxIds |-> TxRow(t, status)]
    /\ item = [i \in ItemIds |-> "AVAILABLE"]
    /\ \E b \in SellerInits :
           user = [u \in Users |-> IF u = "B" THEN b ELSE BuyerInit]
    /\ messages = <<>>
    /\ now = 0
    /\ pc = [r \in Requests |-> "idle"]
    /\ req = [r \in Requests |-> NoReq]
    /\ snap = [r \in Requests |-> NoSnap]
    /\ local = [r \in Requests |-> NoLocal]
    /\ resp = [r \in Requests |-> NoResp]
    /\ received = {}

(***************************************************************************)
(* What every handler does before it looks at the transaction: resolve the *)
(* caller (401), validate the body (400), findUnique (404).                *)
(***************************************************************************)
Response(code, error, status) == [code |-> code, error |-> error, status |-> status]

Precheck(q) ==
    IF q.caller = NoUser THEN Response(401, "Unauthorized", Null)
    ELSE IF ~q.wellFormed THEN Response(400, "Validation", Null)
    ELSE IF q.tid \notin DOMAIN tx THEN Response(404, "NotFound", Null)
    ELSE NoResp

\* prisma.transaction.findUnique, with include: { seller, buyer, item } when withUsers.
\* Of the rows read, the handlers use the fields kept here.
FindUnique(q, withUsers) ==
    IF Precheck(q) # NoResp THEN NoSnap
    ELSE LET t == tx[q.tid]
             seller == user[t.sellerId]
             buyer == user[t.buyerId]
         IN  [transaction |-> [status |-> t.status, buyerId |-> t.buyerId,
                               sellerId |-> t.sellerId, itemId |-> t.itemId],
              seller |-> IF withUsers
                         THEN [verificationStatus |-> seller.verificationStatus,
                               avgRating |-> seller.avgRating,
                               completedDeals |-> seller.completedDeals,
                               cancellationRate |-> seller.cancellationRate]
                         ELSE Null,
              buyer |-> IF withUsers THEN [completedDeals |-> buyer.completedDeals]
                        ELSE Null,
              item |-> IF withUsers THEN [availabilityStatus |-> item[t.itemId]]
                       ELSE Null]

\* prisma.<model>.update({ data }): the fields of data replace those of the row
Update(row, data) == [f \in DOMAIN row |-> IF f \in DOMAIN data THEN data[f] ELSE row[f]]

(***************************************************************************)
(* The checks of each route on the transaction it read: NoResp lets the    *)
(* handler go on to its update.                                            *)
(***************************************************************************)
PayCheck(transaction, userId) ==
    IF transaction.buyerId # userId THEN Response(403, "Forbidden", Null)
    ELSE IF transaction.status # "ACCEPTED"
         THEN Response(400, "InvalidState", transaction.status)
    ELSE NoResp

\* a variant that looks at the status before it looks at the caller
MeetupCheckStatusFirst(transaction, userId) ==
    IF transaction.status \notin {"REQUESTED", "ACCEPTED"}
    THEN Response(400, "InvalidState", transaction.status)
    ELSE IF transaction.buyerId # userId /\ transaction.sellerId # userId
         THEN Response(403, "Forbidden", Null)
    ELSE NoResp

\* a variant that lets a PAID transaction through
MeetupCheckLax(transaction, userId) ==
    IF transaction.buyerId # userId /\ transaction.sellerId # userId
    THEN Response(403, "Forbidden", Null)
    ELSE IF transaction.status \notin {"REQUESTED", "ACCEPTED", "PAID"}
         THEN Response(400, "InvalidState", transaction.status)
    ELSE NoResp

MeetupCheck(transaction, userId) ==
    IF transaction.buyerId # userId /\ transaction.sellerId # userId
    THEN Response(403, "Forbidden", Null)
    ELSE IF transaction.status \notin {"REQUESTED", "ACCEPTED"}
         THEN Response(400, "InvalidState", transaction.status)
    ELSE NoResp

ConfirmDeliveryCheck(transaction, userId) ==
    IF transaction.sellerId # userId THEN Response(403, "Forbidden", Null)
    ELSE IF transaction.status # "PAID" /\ transaction.status # "MEETING"
         THEN Response(400, "InvalidState", transaction.status)
    ELSE NoResp

\* a variant that lets a PAID transaction through as well
MarkPaidCheckLax(transaction, userId) ==
    IF transaction.buyerId # userId THEN Response(403, "Forbidden", Null)
    ELSE IF transaction.status \notin {"MEETING", "PAID"}
         THEN Response(400, "InvalidState", transaction.status)
    ELSE NoResp

MarkPaidCheck(transaction, userId) ==
    IF transaction.buyerId # userId THEN Response(403, "Forbidden", Null)
    ELSE IF transaction.status # "MEETING"
         THEN Response(400, "InvalidState", transaction.status)
    ELSE NoResp

\* a variant that lets either party through
MarkReceivedCheckEitherParty(transaction, userId) ==
    IF transaction.buyerId # userId /\ transaction.sellerId # userId
    THEN Response(403, "Forbidden", Null)
    ELSE IF transaction.status # "PAID"
         THEN Response(400, "InvalidState", transaction.status)
    ELSE NoResp

MarkReceivedCheck(transaction, userId) ==
    IF transaction.buyerId # userId THEN Response(403, "Forbidden", Null)
    ELSE IF transaction.status # "PAID"
         THEN Response(400, "InvalidState", transaction.status)
    ELSE NoResp

\* a variant that lets every authenticated user write
MessageCheckLax(transaction, userId) == NoResp

MessageCheck(transaction, userId) ==
    IF transaction.buyerId # userId /\ transaction.sellerId # userId
    THEN Response(403, "Forbidden", Null)
    ELSE NoResp

(***************************************************************************)
(* The data of each update.                                                *)
(***************************************************************************)
\* pay reads the clock twice: new Date() at start, Date.now() at end
Countdown(start, end) ==
    [countdownStart |-> start, countdownEnd |-> end + MEETUP_TIMEOUT_HOURS * MsPerHour]

PayData(paymentId, countdown) ==
    [status |-> "PAID", paymentId |-> paymentId,
     countdownStart |-> countdown.countdownStart, countdownEnd |-> countdown.countdownEnd]

MeetupData(location) == [meetupLocation |-> location, status |-> "MEETING"]

\* a variant that sends a MEETING transaction back to PAID
ConfirmDeliveryDataToggle(transaction) ==
    IF transaction.status = "PAID" THEN [status |-> "MEETING"] ELSE [status |-> "PAID"]

ConfirmDeliveryData(transaction) ==
    IF transaction.status = "PAID" THEN [status |-> "MEETING"] ELSE <<>>

\* a variant that forgets the meetup location
MarkPaidDataClears ==
    [status |-> "PAID", paymentId |-> "physical_payment", meetupLocation |-> Null]

\* a variant that sets the status only
MarkPaidDataStatusOnly == [status |-> "PAID"]

MarkPaidData == [status |-> "PAID", paymentId |-> "physical_payment"]

MarkReceivedData == [status |-> "COMPLETED"]

\* a variant that asks the engine with the statistics as they were read
SellerDataStale(seller) ==
    LET newCompletedDeals == seller.completedDeals + 1
        newCancellationRate ==
            Rat(seller.cancellationRate[1] * seller.completedDeals,
                seller.cancellationRate[2] * newCompletedDeals)
    IN  [completedDeals |-> newCompletedDeals,
         cancellationRate |-> newCancellationRate,
         trustScore |-> calculateTrustScore(seller.verificationStatus, seller.avgRating,
                                            seller.completedDeals, seller.cancellationRate),
         badges |-> getEarnedBadges(seller.completedDeals, seller.avgRating,
                                    seller.cancellationRate)]

\* a variant that counts the deal but leaves the cancellation rate as it was
SellerDataRateKept(seller) ==
    LET newCompletedDeals == seller.completedDeals + 1
    IN  [completedDeals |-> newCompletedDeals,
         cancellationRate |-> seller.cancellationRate,
         trustScore |-> calculateTrustScore(seller.verificationStatus, seller.avgRating,
                                            newCompletedDeals, seller.cancellationRate),
         badges |-> getEarnedBadges(newCompletedDeals, seller.avgRating,
                                    seller.cancellationRate)]

SellerData(seller) ==
    LET newCompletedDeals == seller.completedDeals + 1
        newCancellationRate ==
            Rat(seller.cancellationRate[1] * seller.completedDeals,
                seller.cancellationRate[2] * newCompletedDeals)
    IN  [completedDeals |-> newCompletedDeals,
         cancellationRate |-> newCancellationRate,
         trustScore |-> calculateTrustScore(seller.verificationStatus, seller.avgRating,
                                            newCompletedDeals, newCancellationRate),
         badges |-> getEarnedBadges(newCompletedDeals, seller.avgRating,
                                    newCancellationRate)]

BuyerData(buyer) == [completedDeals |-> buyer.completedDeals + 1]

(***************************************************************************)
(* Requests.  A handler runs from one awaited store call to the next       *)
(* without interruption, so a step here is a store call together with the  *)
(* handler code that follows it up to the next store call.  A response is  *)
(* delivered (Return) before anything else happens.  The wall clock only   *)
(* matters where it is read: time passes at the reads.                     *)
(***************************************************************************)
Delivering == \E r \in Requests : pc[r] = "done"

At(r, p) == pc[r] = p /\ ~Delivering

Request(kind, caller, tid, wellFormed, arg) ==
    [kind |-> kind, caller |-> caller, tid |-> tid, wellFormed |-> wellFormed, arg |-> arg]

\* the handler has read the transaction and checked it: it answers, or goes on
Checked(r, q, s, out, next) ==
    /\ req' = [req EXCEPT ![r] = q]
    /\ IF out = NoResp
       THEN /\ pc' = [pc EXCEPT ![r] = next]
            /\ snap' = [snap EXCEPT ![r] = s]
            /\ UNCHANGED resp
       ELSE /\ pc' = [pc EXCEPT ![r] = "done"]
            /\ resp' = [resp EXCEPT ![r] = out]
            /\ UNCHANGED snap
    /\ UNCHANGED <<tx, item, user, messages, received, client>>

\* the handler returns its response
Answer(r, out) ==
    /\ pc' = [pc EXCEPT ![r] = "done"]
    /\ resp' = [resp EXCEPT ![r] = out]
    /\ UNCHANGED <<req, snap, local>>

Ok == Response(200, Null, Null)

\* who asks for which transaction: no identity, a malformed body, an unknown
\* id, and every user on every transaction
Asks ==
    {[caller |-> NoUser, tid |-> "t1", wellFormed |-> TRUE],
     [caller |-> "A", tid |-> "t1", wellFormed |-> FALSE],
     [caller |-> "A", tid |-> NoTx, wellFormed |-> TRUE]}
        \cup [caller : Users, tid : TxIds, wellFormed : {TRUE}]

Times == 0..MaxClock

PayBegin(r) ==
    /\ At(r, "idle")
    /\ \E a \in Asks, paymentId \in PaymentIds :
           LET q == Request("pay", a.caller, a.tid, a.wellFormed, paymentId)
               s == FindUnique(q, FALSE)
               out == IF Precheck(q) # NoResp THEN Precheck(q)
                      ELSE PayCheck(s.transaction, q.caller)
           IN  /\ Checked(r, q, s, out, "write")
               /\ IF out = NoResp
                  THEN \E start \in Times, end \in Times :
                          /\ now <= start /\ start <= end
                          /\ local' = [local EXCEPT ![r] = Countdown(start, end)]
                          /\ now' = end
                  ELSE UNCHANGED <<local, now>>

PayUpdate(r) ==
    /\ At(r, "write") /\ req[r].kind = "pay"
    /\ tx' = [tx EXCEPT ![req[r].tid] = Update(@, PayData(req[r].arg, local[r]))]
    /\ Answer(r, Ok)
    /\ UNCHANGED <<item, user, messages, now, received, client>>

MeetupBegin(r) ==
    /\ At(r, "idle")
    /\ \E a \in Asks, location \in Locations :
           LET q == Request("setMeetup", a.caller, a.tid, a.wellFormed, location)
               s == FindUnique(q, FALSE)
           IN  Checked(r, q, s,
                       IF Precheck(q) # NoResp THEN Precheck(q)
                       ELSE MeetupCheck(s.transaction, q.caller),
                       "write")
    /\ UNCHANGED <<local, now>>

MeetupUpdate(r) ==
    /\ At(r, "write") /\ req[r].kind = "setMeetup"
    /\ tx' = [tx EXCEPT ![req[r].tid] = Update(@, MeetupData(req[r].arg))]
    /\ Answer(r, Ok)
    /\ UNCHANGED <<item, user, messages, now, received, client>>

ConfirmDeliveryBegin(r) ==
    /\ At(r, "idle")
    /\ \E a \in Asks :
           LET q == Request("confirmDelivery", a.caller, a.tid, a.wellFormed, Null)
               s == FindUnique(q, FALSE)
           IN  Checked(r, q, s,
                       IF Precheck(q) # NoResp THEN Precheck(q)
                       ELSE ConfirmDeliveryCheck(s.transaction, q.caller),
                       "write")
    /\ UNCHANGED <<local, now>>

ConfirmDeliveryUpdate(r) ==
    /\ At(r, "write") /\ req[r].kind = "confirmDelivery"
    /\ tx' = [tx EXCEPT ![req[r].tid] = Update(@, ConfirmDeliveryData(snap[r].transaction))]
    /\ Answer(r, Ok)
    /\ UNCHANGED <<item, user, messages, now, received, client>>

MarkPaidBegin(r) ==
    /\ At(r, "idle")
    /\ \E a \in Asks :
           LET q == Request("markPaid", a.caller, a.tid, a.wellFormed, Null)
               s == FindUnique(q, FALSE)
           IN  Checked(r, q, s,
                       IF Precheck(q) # NoResp THEN Precheck(q)
                       ELSE MarkPaidCheck(s.transaction, q.caller),
                       "write")
    /\ UNCHANGED <<local, now>>

MarkPaidUpdate(r) ==
    /\ At(r, "write") /\ req[r].kind = "markPaid"
    /\ tx' = [tx EXCEPT ![req[r].tid] = Update(@, MarkPaidData)]
    /\ Answer(r, Ok)
    /\ UNCHANGED <<item, user, messages, now, received, client>>

\* mark-received as asked by a: the read of the transaction and the checks
MarkReceivedAsked(r, a) ==
    /\ At(r, "idle")
    /\ \A u \in Users : user[u].completedDeals < MaxDeals
    /\ LET q == Request("markReceived", a.caller, a.tid, a.wellFormed, Null)
           s == FindUnique(q, TRUE)
       IN  Checked(r, q, s,
                   IF Precheck(q) # NoResp THEN Precheck(q)
                   ELSE MarkReceivedCheck(s.transaction, q.caller),
                   "write")
    /\ UNCHANGED <<local, now>>

MarkReceivedBegin(r) == \E a \in Asks : MarkReceivedAsked(r, a)

MarkReceivedUpdateTransaction(r) ==
    /\ At(r, "write") /\ req[r].kind = "markReceived"
    /\ tx' = [tx EXCEPT ![req[r].tid] = Update(@, MarkReceivedData)]
    /\ pc' = [pc EXCEPT ![r] = "item"]
    /\ UNCHANGED <<item, user, messages, now, req, snap, local, resp, received, client>>

MarkReceivedUpdateItem(r) ==
    /\ At(r, "item")
    /\ item' = [item EXCEPT ![snap[r].transaction.itemId] = "SOLD"]
    /\ pc' = [pc EXCEPT ![r] = "seller"]
    /\ UNCHANGED <<tx, user, messages, now, req, snap, local, resp, received, client>>

MarkReceivedUpdateSeller(r) ==
    /\ At(r, "seller")
    /\ user' = [user EXCEPT ![snap[r].transaction.sellerId] =
                   Update(@, SellerData(snap[r].seller))]
    /\ pc' = [pc EXCEPT ![r] = "buyer"]
    /\ UNCHANGED <<tx, item, messages, now, req, snap, local, resp, received, client>>

MarkReceivedUpdateBuyer(r) ==
    /\ At(r, "buyer")
    /\ user' = [user EXCEPT ![snap[r].transaction.buyerId] =
                   Update(@, BuyerData(snap[r].buyer))]
    /\ Answer(r, Ok)
    /\ received' = received \cup {req[r].tid}
    /\ UNCHANGED <<tx, item, messages, now, client>>

MessageBegin(r) ==
    /\ At(r, "idle")
    /\ \E a \in Asks, content \in Contents :
           LET q == Request("sendMessage", a.caller, a.tid, a.wellFormed, content)
               s == FindUnique(q, FALSE)
           IN  Checked(r, q, s,
                       IF Precheck(q) # NoResp THEN Precheck(q)
                       ELSE MessageCheck(s.transaction, q.caller),
                       "write")
    /\ UNCHANGED <<local, now>>

\* prisma.message.create: the store stamps createdAt
MessageCreate(r) ==
    /\ At(r, "write") /\ req[r].kind = "sendMessage"
    /\ Len(messages) < MaxMessages
    /\ \E createdAt \in Instants :
           /\ now <= createdAt
           /\ now' = createdAt
           /\ messages' = Append(messages,
                                 [transactionId |-> req[r].tid, senderId |-> req[r].caller,
                                  content |-> req[r].arg, isAI |-> FALSE,
                                  createdAt |-> createdAt])
    /\ Answer(r, Response(201, Null, Null))
    /\ UNCHANGED <<tx, item, user, received, client>>

\* an awaited update rejects: the handler's catch answers 500
UpdatePcs == {"write", "item", "seller", "buyer"}

StoreFails(r) ==
    /\ pc[r] \in UpdatePcs /\ ~Delivering
    /\ Answer(r, Response(500, "Internal", Null))
    /\ UNCHANGED <<tx, item, user, messages, now, received, client>>

\* the response is delivered; the handler's rows and locals are gone
Return(r) ==
    /\ pc[r] = "done"
    /\ pc' = [pc EXCEPT ![r] = "idle"]
    /\ req' = [req EXCEPT ![r] = NoReq]
    /\ snap' = [snap EXCEPT ![r] = NoSnap]
    /\ local' = [local EXCEPT ![r] = NoLocal]
    /\ resp' = [resp EXCEPT ![r] = NoResp]
    /\ UNCHANGED <<tx, item, user, messages, now, received, client>>

TransactionStep(r) ==
    \/ PayBegin(r) \/ PayUpdate(r)
    \/ MeetupBegin(r) \/ MeetupUpdate(r)
    \/ ConfirmDeliveryBegin(r) \/ ConfirmDeliveryUpdate(r)
    \/ MarkPaidBegin(r) \/ MarkPaidUpdate(r)
    \/ MarkReceivedBegin(r) \/ MarkReceivedUpdateTransaction(r)
    \/ MarkReceivedUpdateItem(r) \/ MarkReceivedUpdateSeller(r)
    \/ MarkReceivedUpdateBuyer(r)
    \/ StoreFails(r) \/ Return(r)

MessageStep(r) == MessageBegin(r) \/ MessageCreate(r)

\* the requests under way
InFlight == {r \in Requests : pc[r] \notin {"idle", "done"}}

\* the transaction routes, their requests interleaved at the store calls
Next == \E r \in Requests : TransactionStep(r)

Spec == Init /\ [][Next]_vars

\* every route, one request at a time: a request begins when no other is under way
Alone(r) == \A o \in Requests \ {r} : pc[o] = "idle"

NextSeq ==
    \E r \in Requests :
        \/ Alone(r) /\ PayBegin(r)
        \/ Alone(r) /\ MeetupBegin(r)
        \/ Alone(r) /\ ConfirmDeliveryBegin(r)
        \/ Alone(r) /\ MarkPaidBegin(r)
        \/ Alone(r) /\ MarkReceivedBegin(r)
        \/ Alone(r) /\ MessageBegin(r)
        \/ PayUpdate(r) \/ MeetupUpdate(r) \/ ConfirmDeliveryUpdate(r) \/ MarkPaidUpdate(r)
        \/ MarkReceivedUpdateTransaction(r) \/ MarkReceivedUpdateItem(r)
        \/ MarkReceivedUpdateSeller(r) \/ MarkReceivedUpdateBuyer(r)
        \/ MessageCreate(r)
        \/ StoreFails(r) \/ Return(r)

SpecSeq == Init /\ [][NextSeq]_vars

(***************************************************************************)
(* GET /api/transactions and GET /api/transactions/[id]/messages/new, as   *)
(* the notifier's fetches see them.  The list is computed from the store   *)
(* as it is when the response resolves; the messages are selected when the *)
(* route runs its query, and the response resolves in a later step.        *)
(***************************************************************************)
\* the entries listed for the user: buyer and seller are what the notifier's
\* Transaction interface reads; the route itself sends otherParty and role
ListTransactions(userId) ==
    LET listed(t) == t \in DOMAIN tx /\ (tx[t].buyerId = userId \/ tx[t].sellerId = userId)
        entry(t) == [id |-> t, parties |-> withParties,
                     buyer |-> tx[t].buyerId, seller |-> tx[t].sellerId]
        ids == SelectSeq(ListOrder, listed)
    IN  [i \in 1..Len(ids) |-> entry(ids[i])]

\* a route that orders its messages by createdAt desc
NewMessagesNewestFirst(transactionId, afterTimestamp) ==
    LET where(i) ==
            /\ messages[i].transactionId = transactionId
            /\ afterTimestamp # NoTime => messages[i].createdAt > afterTimestamp - Window
        found == SelectSeq([i \in 1..Len(messages) |-> i], where)
        page == Min(Len(found), Take)
    IN  [i \in 1..page |-> found[Len(found) + 1 - i]]

\* a route that returns every message it finds
NewMessagesUncapped(transactionId, afterTimestamp) ==
    LET where(i) ==
            /\ messages[i].transactionId = transactionId
            /\ afterTimestamp # NoTime => messages[i].createdAt > afterTimestamp - Window
    IN  SelectSeq([i \in 1..Len(messages) |-> i], where)

\* the positions in the store of the messages the route returns: those of the
\* transaction created later than after - 500 ms, oldest first, 50 at most.
\* The store holds the messages in the order of createdAt.
NewMessages(transactionId, afterTimestamp) ==
    LET where(i) ==
            /\ messages[i].transactionId = transactionId
            /\ afterTimestamp # NoTime => messages[i].createdAt > afterTimestamp - Window
        found == SelectSeq([i \in 1..Len(messages) |-> i], where)
    IN  SubSeq(found, 1, Min(Len(found), Take))

\* the route answers the buyer and the seller only
MessagesOk(userId, transactionId) ==
    /\ userId \in Users /\ transactionId \in DOMAIN tx
    /\ userId \in {tx[transactionId].buyerId, tx[transactionId].sellerId}

\* a filter that lets every message pass
FromAnyone(found, userId) == found

\* messages.filter((msg) => msg.senderId !== this.currentUserId), on positions
FromOthers(found, userId) ==
    LET other(i) == messages[i].senderId # userId
    IN  SelectSeq(found, other)

(***************************************************************************)
(* MessageNotifier.  A tick is a run of checkForNewMessages: it is         *)
(* suspended at its fetches, and runs from one to the next in one step.    *)
(***************************************************************************)
\* stop(): the fields after it
Stopped(n) ==
    [n EXCEPT !.intervalId = Null,
              !.isRunning = FALSE,
              !.lastMessageTimestamps = [t \in ChatIds |-> NoTime]]

\* start(userId) returns at once when it runs already for this user
StartReturns(n, userId) == n.isRunning /\ n.currentUserId = userId

\* a start without the early return for the user it runs for
StartedAnew(n, userId, time) ==
    [(IF n.isRunning THEN Stopped(n) ELSE n)
        EXCEPT !.currentUserId = userId,
               !.isRunning = TRUE,
               !.lastCheckTime = time,
               !.lastMessageTimestamps = [t \in ChatIds |-> NoTime],
               !.intervalId = "timer"]

\* start(userId): the fields after it
Started(n, userId, time) ==
    IF StartReturns(n, userId) THEN n
    ELSE [(IF n.isRunning THEN Stopped(n) ELSE n)
             EXCEPT !.currentUserId = userId,
                    !.isRunning = TRUE,
                    !.lastCheckTime = time,
                    !.lastMessageTimestamps = [t \in ChatIds |-> NoTime],
                    !.intervalId = "timer"]

\* what clearInterval leaves of the timers
Cleared(n) == IF n.intervalId # Null THEN timers - 1 ELSE timers

\* lastMessageTimestamps.get(id) || lastCheckTime
LastKnownTime(n, transactionId) ==
    IF n.lastMessageTimestamps[transactionId] # NoTime
    THEN n.lastMessageTimestamps[transactionId]
    ELSE n.lastCheckTime

\* the loop of a tick skips the transactions whose chat is open
RECURSIVE SkipActive(_, _)
SkipActive(transactions, active) ==
    IF transactions = <<>> THEN <<>>
    ELSE IF Head(transactions).id \in active THEN SkipActive(Tail(transactions), active)
    ELSE transactions

\* a check that does not look at document.hidden
EnteredHidden(k, n) ==
    IF n.currentUserId = Null
    THEN tick
    ELSE [tick EXCEPT ![k] = [pc |-> "list", token |-> n.currentUserId,
                              transactions |-> <<>>, lastKnownTime |-> NoTime,
                              found |-> <<>>]]

\* checkForNewMessages up to its first fetch, for the notifier fields n: the ticks after it
Entered(k, n) ==
    IF n.currentUserId = Null \/ hidden
    THEN tick
    ELSE [tick EXCEPT ![k] = [pc |-> "list", token |-> n.currentUserId,
                              transactions |-> <<>>, lastKnownTime |-> NoTime,
                              found |-> <<>>]]

\* the loop goes on with the transactions left, the notifier fields being n:
\* to the fetch for the next transaction whose chat is not open, or past the
\* loop, where lastCheckTime is set from the clock
Loop(k, n, transactions) ==
    LET todo == SkipActive(transactions, n.activeTransactionIds) IN
    IF todo = <<>>
    THEN \E time \in Instants :
            /\ now <= time /\ now' = time
            /\ notifier' = [n EXCEPT !.lastCheckTime = time]
            /\ tick' = [tick EXCEPT ![k] = NoTick]
    ELSE /\ now' = now
         /\ notifier' = n
         /\ tick' = [tick EXCEPT ![k] =
                        [pc |-> "messages", token |-> tick[k].token, transactions |-> todo,
                         lastKnownTime |-> LastKnownTime(n, Head(todo).id),
                         found |-> <<>>]]

\* a tick that is not under way; k1 before k2
Free(k) == tick[k].pc = "idle" /\ (k = "k1" \/ tick["k1"].pc # "idle")

server == <<tx, item, user, messages, pc, req, snap, local, resp, received>>

\* start(userId): the timers after it, and the ticks after its first check
StartedTimers(n, userId) ==
    IF StartReturns(n, userId) THEN timers
    ELSE (IF n.isRunning THEN Cleared(n) ELSE timers) + 1

StartedTicks(k, n, userId, time) ==
    IF StartReturns(n, userId) THEN tick ELSE Entered(k, Started(n, userId, time))

start(userId, k) ==
    /\ Free(k)
    /\ \E time \in Instants :
           /\ now <= time
           /\ now' = IF StartReturns(notifier, userId) THEN now ELSE time
           /\ notifier' = Started(notifier, userId, time)
           /\ timers' = StartedTimers(notifier, userId)
           /\ tick' = StartedTicks(k, notifier, userId, time)
    /\ notified' = IF StartReturns(notifier, userId) THEN notified ELSE [t \in ChatIds |-> 0]
    /\ UNCHANGED <<server, hidden, withParties, toast>>

stop ==
    /\ notifier.isRunning
    /\ notifier' = Stopped(notifier)
    /\ timers' = Cleared(notifier)
    /\ UNCHANGED <<server, now, hidden, tick, withParties, toast, notified>>

setActiveTransaction(transactionId) ==
    /\ transactionId \notin notifier.activeTransactionIds
    /\ notifier' = [notifier EXCEPT !.activeTransactionIds = @ \cup {transactionId}]
    /\ UNCHANGED <<server, now, timers, hidden, tick, withParties, toast, notified>>

removeActiveTransaction(transactionId) ==
    /\ transactionId \in notifier.activeTransactionIds
    /\ notifier' = [notifier EXCEPT !.activeTransactionIds = @ \ {transactionId}]
    /\ UNCHANGED <<server, now, timers, hidden, tick, withParties, toast, notified>>

\* the tab is hidden or shown
VisibilityChange ==
    /\ hidden' = ~hidden
    /\ UNCHANGED <<server, now, notifier, timers, tick, withParties, toast, notified>>

\* the interval timer calls checkForNewMessages
IntervalFires(k) ==
    /\ timers > 0 /\ Free(k)
    /\ tick' = Entered(k, notifier)
    /\ UNCHANGED <<server, now, notifier, timers, hidden, withParties, toast, notified>>

\* the list arrives: the loop begins
TickList(k) ==
    /\ tick[k].pc = "list"
    /\ Loop(k, notifier, ListTransactions(tick[k].token))
    /\ UNCHANGED <<server, timers, hidden, withParties, toast, notified>>

\* the list request is answered with an error: the tick returns
TickListNotOk(k) ==
    /\ tick[k].pc = "list"
    /\ tick' = [tick EXCEPT ![k] = NoTick]
    /\ UNCHANGED <<server, now, notifier, timers, hidden, withParties, toast, notified>>

\* the route answers the request for the messages of the transaction: it runs
\* its query; the response is on its way
ServeMessages(k) ==
    /\ tick[k].pc = "messages"
    /\ LET transaction == Head(tick[k].transactions)
       IN  /\ MessagesOk(tick[k].token, transaction.id)
           /\ tick' = [tick EXCEPT ![k].pc = "served",
                                   ![k].found = NewMessages(transaction.id,
                                                            tick[k].lastKnownTime)]
    /\ UNCHANGED <<server, now, notifier, timers, hidden, withParties, toast, notified>>

\* the messages of the transaction arrive
TickMessages(k) ==
    /\ tick[k].pc = "served"
    /\ LET transaction == Head(tick[k].transactions)
           found == tick[k].found
           newMessages == FromOthers(found, notifier.currentUserId)
       IN  /\ newMessages # <<>> => transaction.parties
           /\ IF newMessages # <<>>
              THEN LET first == messages[newMessages[1]]
                       latestMessage == messages[newMessages[Len(newMessages)]]
                       sender == IF transaction.buyer = first.senderId
                                 THEN transaction.buyer ELSE transaction.seller
                   IN  /\ toast' = [transactionId |-> transaction.id, sender |-> sender,
                                    message |-> newMessages[1],
                                    preview |-> Preview(first.content),
                                    token |-> tick[k].token,
                                    flip |-> ~toast.flip]
                       /\ notified' = [notified EXCEPT ![transaction.id] =
                                                          newMessages[Len(newMessages)]]
                       /\ Loop(k, [notifier EXCEPT
                                      !.lastMessageTimestamps[transaction.id] =
                                          latestMessage.createdAt],
                               Tail(tick[k].transactions))
              ELSE /\ UNCHANGED <<toast, notified>>
                   /\ IF found # <<>>
                      THEN Loop(k, [notifier EXCEPT
                                       !.lastMessageTimestamps[transaction.id] =
                                           messages[found[Len(found)]].createdAt],
                                Tail(tick[k].transactions))
                      ELSE Loop(k, notifier, Tail(tick[k].transactions))
    /\ UNCHANGED <<server, timers, hidden, withParties>>

\* the messages arrive, some of them the counterpart's, and the entry of the
\* list has no buyer: transaction.buyer.id throws, the catch logs, the tick ends
TickSenderThrows(k) ==
    /\ tick[k].pc = "served"
    /\ LET transaction == Head(tick[k].transactions)
       IN  /\ FromOthers(tick[k].found, notifier.currentUserId) # <<>>
           /\ ~transaction.parties
    /\ tick' = [tick EXCEPT ![k] = NoTick]
    /\ UNCHANGED <<server, now, notifier, timers, hidden, withParties, toast, notified>>

\* the messages request is answered with an error: the loop goes on
TickMessagesNotOk(k) ==
    /\ tick[k].pc = "messages"
    /\ Loop(k, notifier, Tail(tick[k].transactions))
    /\ UNCHANGED <<server, timers, hidden, withParties, toast, notified>>

\* a fetch rejects: the catch logs, the tick ends.  The routes behind the
\* fetches write nothing, so a request lost after the route ran is this case too
TickFetchThrows(k) ==
    /\ tick[k].pc \in {"list", "messages"}
    /\ tick' = [tick EXCEPT ![k] = NoTick]
    /\ UNCHANGED <<server, now, notifier, timers, hidden, withParties, toast, notified>>

\* a chat: transaction t1 of buyer A and seller B is ACCEPTED; the list comes
\* with buyer and seller, or as the route formats it
InitPoller ==
    /\ ClientInit /\ withParties \in BOOLEAN
    /\ tx = [t \in TxIds |-> TxRow(t, "ACCEPTED")]
    /\ item = [i \in ItemIds |-> "AVAILABLE"]
    /\ user = [u \in Users |-> BuyerInit]
    /\ messages = <<>>
    /\ now = 0
    /\ pc = [r \in Requests |-> "idle"]
    /\ req = [r \in Requests |-> NoReq]
    /\ snap = [r \in Requests |-> NoSnap]
    /\ local = [r \in Requests |-> NoLocal]
    /\ resp = [r \in Requests |-> NoResp]
    /\ received = {}

\* POST /api/transactions/[id]/messages by a party, from the request to the
\* response: the route as a whole, seen from the browser
Posted(senderId, transactionId, content) ==
    /\ MessageCheck(tx[transactionId], senderId) = NoResp
    /\ \E createdAt \in Instants :
           /\ now <= createdAt
           /\ now' = createdAt
           /\ messages' = Append(messages,
                                 [transactionId |-> transactionId, senderId |-> senderId,
                                  content |-> content, isAI |-> FALSE,
                                  createdAt |-> createdAt])
    /\ UNCHANGED <<tx, item, user, pc, req, snap, local, resp, received, client>>

MessageArrives(senderId, transactionId) ==
    /\ Len(messages) < MaxMessages
    /\ \E content \in Contents : Posted(senderId, transactionId, content)

NextPoller ==
    \/ \E senderId \in Users, t \in TxIds : MessageArrives(senderId, t)
    \/ \E userId \in PollerUsers, k \in Ticks : start(userId, k)
    \/ stop
    \/ \E t \in TxIds : setActiveTransaction(t)
    \/ \E t \in TxIds : removeActiveTransaction(t)
    \/ VisibilityChange
    \/ \E k \in Ticks :
           \/ IntervalFires(k)
           \/ TickList(k) \/ TickListNotOk(k)
           \/ ServeMessages(k) \/ TickMessages(k) \/ TickSenderThrows(k)
           \/ TickMessagesNotOk(k) \/ TickFetchThrows(k)

SpecPoller == InitPoller /\ [][NextPoller]_vars

(***************************************************************************)
(* The notifier left to itself: B logs in and stays, the tab stays         *)
(* visible, no chat is opened, every fetch is answered 200, and A writes   *)
(* while the notifier runs.  setInterval keeps calling the check, and      *)
(* every request is served and its response resolves.                      *)
(***************************************************************************)
NextPollerLive ==
    \/ \E k \in Ticks : start("B", k)
    \/ notifier.isRunning /\ MessageArrives("A", "t1")
    \/ \E k \in Ticks :
           \/ IntervalFires(k)
           \/ TickList(k)
           \/ ServeMessages(k) \/ TickMessages(k) \/ TickSenderThrows(k)

FairPoller ==
    /\ WF_vars(\E k \in Ticks : IntervalFires(k))
    /\ \A k \in Ticks :
           /\ WF_vars(TickList(k))
           /\ WF_vars(ServeMessages(k))
           /\ WF_vars(TickMessages(k))
           /\ WF_vars(TickSenderThrows(k))

SpecPollerLive == InitPoller /\ [][NextPollerLive]_vars /\ FairPoller

(***************************************************************************)
(* The passes of the notifier, one after the other: B is a party of two    *)
(* chats with A and logs in; both write; the interval calls the check when *)
(* the check before has ended; a fetch is answered 200, or with an error,  *)
(* or rejects.                                                             *)
(***************************************************************************)
InitPass ==
    /\ ClientInit /\ withParties \in BOOLEAN
    /\ tx = [t \in ChatIds |-> TxRow(t, "ACCEPTED")]
    /\ item = [i \in ItemIds |-> "AVAILABLE"]
    /\ user = [u \in Users |-> BuyerInit]
    /\ messages = <<>>
    /\ now = 0
    /\ pc = [r \in Requests |-> "idle"]
    /\ req = [r \in Requests |-> NoReq]
    /\ snap = [r \in Requests |-> NoSnap]
    /\ local = [r \in Requests |-> NoLocal]
    /\ resp = [r \in Requests |-> NoResp]
    /\ received = {}

NextPass ==
    \/ start("B", "k1")
    \/ /\ notifier.isRunning /\ Len(messages) < MaxBatch
       /\ \E senderId \in {"A", "B"}, t \in ChatIds, content \in Contents :
              Posted(senderId, t, content)
    \/ IntervalFires("k1")
    \/ TickList("k1") \/ TickListNotOk("k1")
    \/ ServeMessages("k1") \/ TickMessages("k1") \/ TickSenderThrows("k1")
    \/ TickMessagesNotOk("k1") \/ TickFetchThrows("k1")

SpecPass == InitPass /\ [][NextPass]_vars

(***************************************************************************)
(* The preview of a toast: A writes one message to B, short or long, and   *)
(* B's notifier fetches it.                                                *)
(***************************************************************************)
\* a content of n characters; the characters past the cap differ from those before
Text(n) == [i \in 1..n |-> IF i <= PreviewCap THEN "a" ELSE "b"]
Texts == {Text(n) : n \in (1..2) \cup ((PreviewCap - 1)..(PreviewCap + MaxOver))}

NextPreview ==
    \/ start("B", "k1")
    \/ /\ notifier.isRunning /\ messages = <<>>
       /\ \E content \in Texts : Posted("A", "t1", content)
    \/ IntervalFires("k1")
    \/ TickList("k1")
    \/ ServeMessages("k1") \/ TickMessages("k1") \/ TickSenderThrows("k1")

SpecPreview == InitPoller /\ [][NextPreview]_vars

(***************************************************************************)
(* Vocabulary of the properties.                                           *)
(***************************************************************************)
\* request r begins in this step: its handler reads the transaction and checks it
Begins(r) == pc[r] = "idle" /\ pc'[r] # "idle"

\* request r is answered in this step, with this response, and the store is as before
Rejects(r, out) == pc'[r] = "done" /\ resp'[r] = out /\ store' = store

\* request r of this route answers 200 in this step
Succeeds(r, kind) ==
    req[r].kind = kind /\ pc[r] \in UpdatePcs /\ pc'[r] = "done" /\ resp'[r].code = 200

\* request r answers 500 in this step
Fails(r) == pc[r] \in UpdatePcs /\ pc'[r] = "done" /\ resp'[r].code = 500

\* the request is one an authenticated caller makes, well formed, for a known id
Proper(q) == q.caller \in Users /\ q.wellFormed /\ q.tid \in TxIds

StatusRoutes == {"pay", "setMeetup", "confirmDelivery", "markPaid", "markReceived"}
BuyerRoutes == {"pay", "markPaid", "markReceived"}
SellerRoutes == {"confirmDelivery"}

\* the statuses from which the action is allowed (spec 4.1)
Precondition(kind) ==
    CASE kind = "pay" -> {"ACCEPTED"}
      [] kind = "setMeetup" -> {"REQUESTED", "ACCEPTED"}
      [] kind = "confirmDelivery" -> {"PAID", "MEETING"}
      [] kind = "markPaid" -> {"MEETING"}
      [] kind = "markReceived" -> {"PAID"}

\* the caller has the role the action asks for (spec 4.1)
CorrectRole(kind, caller, t) ==
    CASE kind \in BuyerRoutes -> caller = t.buyerId
      [] kind \in SellerRoutes -> caller = t.sellerId
      [] OTHER -> caller \in {t.buyerId, t.sellerId}

(***************************************************************************)
(* C1: under any interleaving of pay, setMeetup, confirmDelivery, markPaid *)
(* and markReceived, every change of the stored status is one of the edges *)
(* ACCEPTED->PAID, REQUESTED->MEETING, ACCEPTED->MEETING, PAID->MEETING,   *)
(* MEETING->PAID, PAID->COMPLETED.                                         *)
(***************************************************************************)
Edges ==
    {<<"ACCEPTED", "PAID">>, <<"REQUESTED", "MEETING">>, <<"ACCEPTED", "MEETING">>,
     <<"PAID", "MEETING">>, <<"MEETING", "PAID">>, <<"PAID", "COMPLETED">>}

C1_OnlyListedEdges ==
    [][\A t \in TxIds :
          tx'[t].status # tx[t].status => <<tx[t].status, tx'[t].status>> \in Edges]_vars

C3_StrangerForbidden ==
    [][\A r \in Requests :
          Begins(r) =>
              LET q == req'[r] IN
              (Proper(q) /\ q.caller \notin {tx[q.tid].buyerId, tx[q.tid].sellerId})
              => Rejects(r, Response(403, "Forbidden", Null))]_vars

\* C asked markReceived on a MEETING transaction, whose status would be refused
\* too, and was answered 403
C3_Witness ==
    \E r \in Requests :
        /\ pc[r] = "done" /\ req[r].kind = "markReceived" /\ req[r].caller = "C"
        /\ resp[r] = Response(403, "Forbidden", Null)
        /\ tx["t1"].status = "MEETING"

(***************************************************************************)
(* C4: pay, markPaid and markReceived pass their checks only for the       *)
(* buyer, confirmDelivery only for the seller; the other party is answered *)
(* 403 in every status with the store unchanged; setMeetup passes for      *)
(* either party in REQUESTED and ACCEPTED.                                 *)
(***************************************************************************)
C4_RoleGating ==
    [][\A r \in Requests :
          Begins(r) =>
              LET q == req'[r] IN
              Proper(q) =>
                  LET t == tx[q.tid] IN
                  /\ (q.kind \in BuyerRoutes /\ pc'[r] # "done") => q.caller = t.buyerId
                  /\ (q.kind \in SellerRoutes /\ pc'[r] # "done") => q.caller = t.sellerId
                  /\ (q.kind \in BuyerRoutes /\ q.caller = t.sellerId)
                         => Rejects(r, Response(403, "Forbidden", Null))
                  /\ (q.kind \in SellerRoutes /\ q.caller = t.buyerId)
                         => Rejects(r, Response(403, "Forbidden", Null))
                  /\ (/\ q.kind = "setMeetup" /\ q.caller \in {t.buyerId, t.sellerId}
                      /\ t.status \in Precondition("setMeetup"))
                         => pc'[r] = "write"]_vars

\* the buyer asked confirmDelivery on a PAID transaction and was answered 403
C4_Witness ==
    \E r \in Requests :
        /\ pc[r] = "done" /\ req[r].kind = "confirmDelivery" /\ req[r].caller = "A"
        /\ resp[r] = Response(403, "Forbidden", Null)
        /\ tx["t1"].status = "PAID"

(***************************************************************************)
(* C5: after a successful pay the status is PAID, the given paymentId is   *)
(* stored, and countdownEnd - countdownStart is exactly 24 hours, also     *)
(* when the clock advances between the handler's clock reads.              *)
(***************************************************************************)
C5_PayCountdownExact ==
    [][\A r \in Requests :
          Succeeds(r, "pay") =>
              LET t == tx'[req[r].tid] IN
              /\ t.status = "PAID"
              /\ t.paymentId = req[r].arg
              /\ t.countdownEnd - t.countdownStart = 24 * 60 * 60 * 1000]_vars

(***************************************************************************)
(* C6: with requests served one at a time, a successful markReceived       *)
(* leaves the transaction COMPLETED, the item SOLD, the completedDeals of  *)
(* seller and buyer one higher than the values read before the call, and   *)
(* the seller's trustScore and badges equal to the engine's result for the *)
(* incremented completedDeals and the decayed cancellationRate; the badge  *)
(* set is the engine's result and holds nothing else.  Until the handler   *)
(* writes a user, the stored values are those it read.                     *)
(***************************************************************************)
\* the rows request r read are still the rows stored
SellerAsRead(r) ==
    LET seller == user[snap[r].transaction.sellerId] IN
    /\ seller.completedDeals = snap[r].seller.completedDeals
    /\ seller.cancellationRate = snap[r].seller.cancellationRate
    /\ seller.avgRating = snap[r].seller.avgRating
    /\ seller.verificationStatus = snap[r].seller.verificationStatus

BuyerAsRead(r) ==
    user[snap[r].transaction.buyerId].completedDeals = snap[r].buyer.completedDeals

ReadIsCurrent ==
    \A r \in Requests :
        req[r].kind = "markReceived" =>
            /\ pc[r] \in {"write", "item", "seller"} => SellerAsRead(r)
            /\ pc[r] \in {"write", "item", "seller", "buyer"} => BuyerAsRead(r)

C6_MarkReceivedCascade ==
    [][/\ ReadIsCurrent'
       /\ \A r \in Requests :
              Succeeds(r, "markReceived") =>
                  LET was == snap[r]
                      seller == user'[was.transaction.sellerId]
                      buyer == user'[was.transaction.buyerId]
                      deals == was.seller.completedDeals + 1
                      rate == Rat(was.seller.cancellationRate[1] * was.seller.completedDeals,
                                  was.seller.cancellationRate[2] * deals)
                  IN  /\ tx'[req[r].tid].status = "COMPLETED"
                      /\ item'[was.transaction.itemId] = "SOLD"
                      /\ seller.completedDeals = deals
                      /\ buyer.completedDeals = was.buyer.completedDeals + 1
                      /\ seller.cancellationRate = rate
                      /\ seller.trustScore =
                             calculateTrustScore(seller.verificationStatus, seller.avgRating,
                                                 deals, rate)
                      /\ seller.badges = getEarnedBadges(deals, seller.avgRating, rate)]_vars

\* markReceived has succeeded for a seller who had one deal, a cancellation rate
\* of 1/2 and a TOP_RATED badge his rating no longer earns: the badge is gone
C6_Witness ==
    \E r \in Requests :
        /\ pc[r] = "done" /\ req[r].kind = "markReceived" /\ resp[r].code = 200
        /\ user["B"].completedDeals = 2
        /\ user["B"].cancellationRate = <<1, 4>>
        /\ user["B"].badges = {"TRUSTED_SELLER"}
        /\ user["A"].completedDeals = 1
        /\ item["i1"] = "SOLD"

(***************************************************************************)
(* C7: the markReceived cascade is atomic for readers: in no reachable     *)
(* state is a transaction COMPLETED while its item is not SOLD, and in no  *)
(* reachable state has a handler updated the seller and not yet the buyer. *)
(***************************************************************************)
C7_CascadeAtomic ==
    /\ \A t \in TxIds : tx[t].status = "COMPLETED" => item[tx[t].itemId] = "SOLD"
    /\ \A r \in Requests : pc[r] # "buyer"

(***************************************************************************)
(* C8: of two concurrent markReceived requests for one PAID transaction at *)
(* most one succeeds: markReceived answers 200 for a transaction once.     *)
(***************************************************************************)
C8_OneMarkReceivedSucceeds ==
    [][\A r \in Requests :
          Succeeds(r, "markReceived") => req[r].tid \notin received]_vars

(***************************************************************************)
(* C9: when a store write inside markReceived fails and the handler        *)
(* answers 500, none of the cascade's effects persists: transaction, item  *)
(* and both users are as the handler read them.                            *)
(***************************************************************************)
C9_FailureRollsBack ==
    [][\A r \in Requests :
          (Fails(r) /\ req[r].kind = "markReceived") =>
              /\ tx'[req[r].tid].status = snap[r].transaction.status
              /\ item'[snap[r].transaction.itemId] = snap[r].item.availabilityStatus
              /\ SellerAsRead(r)'
              /\ BuyerAsRead(r)']_vars

(***************************************************************************)
(* C10: whenever no request is under way, an item is SOLD if and only if a *)
(* transaction that references it is COMPLETED.                            *)
(***************************************************************************)
Quiescent == \A r \in Requests : pc[r] = "idle"

C10_SoldIffCompleted ==
    Quiescent =>
        \A i \in ItemIds :
            item[i] = "SOLD" <=> \E t \in TxIds : tx[t].itemId = i /\ tx[t].status = "COMPLETED"

(***************************************************************************)
(* C11: the documented flow: after pay("pay_1") by the buyer on an         *)
(* ACCEPTED transaction and confirmDelivery by the seller, markReceived by *)
(* the buyer passes its checks (and so completes the transaction).  With   *)
(* requests served one at a time a transaction is MEETING with the         *)
(* paymentId of pay and no meetupLocation exactly after pay followed by    *)
(* confirmDelivery.                                                        *)
(***************************************************************************)
C11_DocumentedFlowCompletes ==
    [][\A r \in Requests :
          Begins(r) =>
              LET q == req'[r] IN
              (/\ Proper(q) /\ q.kind = "markReceived" /\ q.caller = tx[q.tid].buyerId
               /\ tx[q.tid].status = "MEETING"
               /\ tx[q.tid].paymentId \in PaymentIds
               /\ tx[q.tid].meetupLocation = Null)
              => pc'[r] = "write"]_vars

(***************************************************************************)
(* C12: with requests served one at a time, confirmDelivery by the seller  *)
(* passes its checks from PAID and from MEETING; when it succeeds from     *)
(* PAID the status is MEETING and the other fields are as they were; when  *)
(* it succeeds from MEETING the transaction row is as it was, so a second  *)
(* confirmDelivery changes nothing.                                        *)
(***************************************************************************)
C12_ConfirmDeliveryIdempotent ==
    [][\A r \in Requests :
          /\ Begins(r) =>
                 LET q == req'[r] IN
                 (/\ Proper(q) /\ q.kind = "confirmDelivery"
                  /\ q.caller = tx[q.tid].sellerId
                  /\ tx[q.tid].status \in {"PAID", "MEETING"})
                 => pc'[r] = "write"
          /\ Succeeds(r, "confirmDelivery") =>
                 LET t == req[r].tid IN
                 /\ tx[t].status = "PAID" =>
                        tx'[t] = [tx[t] EXCEPT !.status = "MEETING"]
                 /\ tx[t].status = "MEETING" => tx'[t] = tx[t]
                 /\ UNCHANGED <<item, user, messages>>]_vars

\* confirmDelivery has succeeded on a transaction it read as MEETING, with a
\* meetup location set before
C12_Witness ==
    \E r \in Requests :
        /\ pc[r] = "done" /\ req[r].kind = "confirmDelivery" /\ resp[r].code = 200
        /\ snap[r].transaction.status = "MEETING"
        /\ tx[req[r].tid].status = "MEETING"
        /\ tx[req[r].tid].meetupLocation \in Locations

(***************************************************************************)
(* C13: COMPLETED is terminal: a transaction whose stored status is        *)
(* COMPLETED keeps that status in every later step, also a step of a       *)
(* handler that read the transaction before the completion.                *)
(***************************************************************************)
C13_CompletedTerminal ==
    [][\A t \in TxIds : tx[t].status = "COMPLETED" => tx'[t].status = "COMPLETED"]_vars

(***************************************************************************)
(* Vocabulary of the notifier's properties.                                *)
(***************************************************************************)
\* a toast for the transaction is shown in this step
Emits(t) == toast' # toast /\ toast'.transactionId = t

\* tick k takes a step: a response of its resolves
Resolves(k) == tick[k].pc # "idle" /\ tick'[k] # tick[k]

\* tick k sends its request for the messages of a transaction in this step
Sends(k) == tick'[k].pc = "messages" /\ tick'[k] # tick[k]

InFlightTicks == {k \in Ticks : tick[k].pc # "idle"}

\* tick k is the only one under way, and it was begun for the user the notifier runs for
Sole(k) ==
    /\ InFlightTicks = {k}
    /\ notifier.isRunning /\ tick[k].token = notifier.currentUserId

C15_EveryMessageNotified ==
    \A i \in 1..MaxMessages :
        (i <= Len(messages) /\ messages[i].senderId # notifier.currentUserId)
            ~> (i <= Len(messages) /\ notified[messages[i].transactionId] >= i)

C17_StartSameUserNoOp ==
    [][/\ \A userId \in PollerUsers, k \in Ticks, time \in Instants :
              StartReturns(notifier, userId) =>
                  /\ Started(notifier, userId, time) = notifier
                  /\ StartedTimers(notifier, userId) = timers
                  /\ StartedTicks(k, notifier, userId, time) = tick
       /\ (notifier.isRunning /\ notifier'.currentUserId # notifier.currentUserId) =>
              /\ notifier'.isRunning
              /\ notifier'.intervalId # Null /\ timers' = 1
              /\ \A t \in ChatIds : notifier'.lastMessageTimestamps[t] = NoTime
              /\ notifier'.lastCheckTime = now'
       /\ timers' <= 1]_vars

\* the notifier runs for B while a tick begun for A is still under way
C17_Witness ==
    /\ notifier.isRunning /\ notifier.currentUserId = "B" /\ timers = 1
    /\ \E k \in Ticks : tick[k].pc # "idle" /\ tick[k].token = "A"

(***************************************************************************)
(* C18: at most one tick of the running notifier is under way at any time: *)
(* the interval does not begin a tick while the one before is suspended.   *)
(***************************************************************************)
C18_OneTickInFlight ==
    notifier.isRunning =>
        Cardinality({k \in InFlightTicks : tick[k].token = notifier.currentUserId}) <= 1

(***************************************************************************)
(* C19: a response that resolves while the notifier is stopped, or for a   *)
(* tick begun for another user than the current one, shows no toast and    *)
(* leaves lastMessageTimestamps and lastCheckTime as they are.             *)
(***************************************************************************)
C19_StoppedTickDiscarded ==
    [][\A k \in Ticks :
          (Resolves(k) /\ (~notifier.isRunning \/ tick[k].token # notifier.currentUserId))
          => /\ toast' = toast
             /\ notifier'.lastMessageTimestamps = notifier.lastMessageTimestamps
             /\ notifier'.lastCheckTime = notifier.lastCheckTime]_vars

(***************************************************************************)
(* C20: when a tick asks for the messages of a transaction, the messages   *)
(* its request selects are those of the transaction created later than     *)
(* max(lastMessageTimestamps[id], lastCheckTime) - 500 ms, an absent       *)
(* lastMessageTimestamps[id] counting as minus infinity.  Stated for ticks *)
(* that run one after the other, over the list entries as GET              *)
(* /api/transactions returns them.                                         *)
(***************************************************************************)
C20_FetchedSinceWatermark ==
    [][\A k \in Ticks :
          (Sends(k) /\ InFlightTicks \subseteq {k} /\ ~withParties
              /\ notifier'.isRunning /\ tick'[k].token = notifier'.currentUserId) =>
              LET t == Head(tick'[k].transactions).id
                  seen == notifier'.lastMessageTimestamps[t]
                  watermark == IF seen = NoTime THEN notifier'.lastCheckTime
                               ELSE Max(seen, notifier'.lastCheckTime)
                  later(i) == /\ messages[i].transactionId = t
                              /\ messages[i].createdAt > watermark - 500
              IN  NewMessages(t, tick'[k].lastKnownTime)
                      = SelectSeq([i \in 1..Len(messages) |-> i], later)]_vars

\* the response with the messages of a transaction resolves for tick k: the
\* positions fetched are not empty
Fetched(k) == tick[k].pc = "served" /\ tick'[k] # tick[k] /\ tick[k].found # <<>>

FetchFails(k) ==
    tick[k].pc = "messages" /\ tick'[k] # tick[k] /\ tick'[k].pc # "served"

(***************************************************************************)
(* C22: when the fetch of the messages of one transaction fails, the tick  *)
(* goes on to fetch the next transaction of its list whose chat is not     *)
(* open.                                                                   *)
(***************************************************************************)
C22_FetchFailureConfined ==
    [][\A k \in Ticks :
          FetchFails(k) =>
              LET rest == SkipActive(Tail(tick[k].transactions),
                                     notifier.activeTransactionIds)
              IN  rest # <<>> =>
                      /\ tick'[k].pc = "messages"
                      /\ tick'[k].transactions = rest]_vars

(***************************************************************************)
(* C23: a tick of the running session that has its list and ends, ends by  *)
(* setting lastCheckTime to the instant it ends at, whether its fetches    *)
(* were answered or some of them failed.  Stated for ticks that run one    *)
(* after the other, with the answers to the messages requests carrying no  *)
(* counterpart message.                                                    *)
(***************************************************************************)
C23_PassEndsWithLastCheckTime ==
    [][\A k \in Ticks :
          (/\ Sole(k) /\ tick[k].pc \in {"messages", "served"}
           /\ FromOthers(tick[k].found, notifier.currentUserId) = <<>>
           /\ tick'[k].pc = "idle")
          => notifier'.lastCheckTime = now']_vars

(***************************************************************************)
(* C24: a tick shows a toast for a transaction once at most: the toast is  *)
(* shown for the transaction whose messages arrived, and the transactions  *)
(* the tick still has to fetch do not hold it again.  The preview is the   *)
(* one of the counterpart message with the smallest createdAt among the    *)
(* messages fetched, and that message is not the user's own.               *)
(***************************************************************************)
C24_OneToastEarliestPreview ==
    [][\A t \in ChatIds, k \in Ticks :
          (Resolves(k) /\ Emits(t)) =>
              LET others == FromOthers(tick[k].found, notifier.currentUserId)
                  first == messages[toast'.message]
              IN  /\ Head(tick[k].transactions).id = t
                  /\ \A j \in 1..Len(tick'[k].transactions) :
                         tick'[k].transactions[j].id # t
                  /\ \E j \in 1..Len(others) : others[j] = toast'.message
                  /\ \A j \in 1..Len(others) :
                         first.createdAt <= messages[others[j]].createdAt
                  /\ toast'.preview = Preview(first.content)]_vars

\* a toast is on show whose tick had fetched two messages of the counterpart,
\* created at different instants
C24_Witness ==
    /\ toast.transactionId \in ChatIds
    /\ \E i, j \in 1..Len(messages) :
           /\ messages[i].transactionId = toast.transactionId
           /\ messages[j].transactionId = toast.transactionId
           /\ messages[i].senderId # notifier.currentUserId
           /\ messages[j].senderId # notifier.currentUserId
           /\ messages[i].createdAt < messages[j].createdAt
           /\ toast.message = i
           /\ notified[toast.transactionId] = j

(***************************************************************************)
(* C25: when the messages fetched for a transaction of the list, as GET    *)
(* /api/transactions returns it, hold a message of the counterpart, the    *)
(* tick shows a toast for that transaction naming the sender of the        *)
(* message, and records lastMessageTimestamps for the transaction.         *)
(***************************************************************************)
C25_ToastOnListAsReturned ==
    [][\A k \in Ticks :
          LET transaction == Head(tick[k].transactions)
              others == FromOthers(tick[k].found, notifier.currentUserId)
          IN  (Fetched(k) /\ Sole(k) /\ ~withParties /\ others # <<>>) =>
                  /\ Emits(transaction.id)
                  /\ toast'.sender = messages[others[1]].senderId
                  /\ notifier'.lastMessageTimestamps[transaction.id] # NoTime]_vars

(***************************************************************************)
(* C26: the preview of a toast is the content of its message when the      *)
(* content has 50 characters at most, and the first 50 characters of the   *)
(* content followed by "..." when it has more.                             *)
(***************************************************************************)
C26_PreviewCapped ==
    toast.transactionId # Null =>
        LET content == messages[toast.message].content
        IN  /\ Len(content) <= 50 => toast.preview = content
            /\ Len(content) > 50 =>
                   toast.preview = SubSeq(content, 1, 50) \o <<".", ".", ".">>
            /\ Len(toast.preview) <= 50 + 3

\* a toast is on show for a message of more than 50 characters
C26_Witness ==
    /\ toast.transactionId # Null
    /\ Len(messages[toast.message].content) > 50

(***************************************************************************)
(* C27: a call of checkForNewMessages while the tab is hidden returns at   *)
(* once: the ticks stay as they are, so no request is sent and nothing is  *)
(* shown or written by it; and no tick begins in a step taken while the    *)
(* tab is hidden.                                                          *)
(***************************************************************************)
C27_HiddenTickDoesNothing ==
    [][/\ hidden => \A k \in Ticks : Entered(k, notifier) = tick
       /\ \A k \in Ticks :
              (tick[k].pc = "idle" /\ tick'[k].pc # "idle") => ~hidden]_vars

\* the tab is hidden while the interval is installed and no tick is under way
C27_Witness ==
    /\ hidden /\ timers > 0 /\ notifier.isRunning
    /\ \A k \in Ticks : tick[k].pc = "idle"

(***************************************************************************)
(* C28: the message a toast is shown for is not one of the user the        *)
(* notifier runs for, and a tick whose fetched messages are all of that    *)
(* user shows nothing; also for a tick that was begun before start was     *)
(* called for another user.                                                *)
(***************************************************************************)
C28_OwnMessagesNeverNotify ==
    [][/\ \A t \in ChatIds :
              Emits(t) =>
                  /\ toast'.message \in 1..Len(messages)
                  /\ messages[toast'.message].transactionId = t
                  /\ messages[toast'.message].senderId # notifier'.currentUserId
       /\ \A k \in Ticks :
              (Fetched(k) /\ \A i \in 1..Len(tick[k].found) :
                                 messages[tick[k].found[i]].senderId = notifier.currentUserId)
              => toast' = toast]_vars

\* a toast is on show that a tick begun for A showed after start was called for B
C28_Witness ==
    /\ toast.transactionId # Null /\ toast.token = "A"
    /\ notifier.isRunning /\ notifier.currentUserId = "B"

(***************************************************************************)
(* C29: markPaid by the buyer on a transaction it reads as MEETING goes on *)
(* to its update, and the update sets status to PAID and paymentId to      *)
(* "physical_payment" and nothing else: the other fields of the            *)
(* transaction (meetupLocation, countdownStart, countdownEnd,              *)
(* escrowAmount), the items, the users and the messages stay as they are.  *)
(***************************************************************************)
C29_MarkPaidFrame ==
    [][\A r \in Requests :
          /\ Begins(r) =>
                 LET q == req'[r] IN
                 (/\ Proper(q) /\ q.kind = "markPaid"
                  /\ q.caller = tx[q.tid].buyerId
                  /\ tx[q.tid].status = "MEETING")
                 => pc'[r] = "write"
          /\ Succeeds(r, "markPaid") =>
                 LET t == req[r].tid IN
                 /\ tx'[t] = [tx[t] EXCEPT !.status = "PAID",
                                           !.paymentId = "physical_payment"]
                 /\ UNCHANGED <<item, user, messages>>]_vars

\* markPaid by the buyer has succeeded on a transaction it read as MEETING,
\* which has a meetup location
C29_Witness ==
    \E r \in Requests :
        /\ pc[r] = "done" /\ req[r].kind = "markPaid" /\ resp[r].code = 200
        /\ req[r].caller = "A"
        /\ snap[r].transaction.status = "MEETING"
        /\ tx[req[r].tid].status = "PAID"
        /\ tx[req[r].tid].paymentId = "physical_payment"
        /\ tx[req[r].tid].meetupLocation \in Locations

(***************************************************************************)
(* C30: setMeetup by the buyer or the seller goes on to its update exactly *)
(* when it reads the status REQUESTED or ACCEPTED, and is answered 400     *)
(* with the store unchanged in every other status; the update sets status  *)
(* to MEETING and meetupLocation to the location given and leaves the      *)
(* other fields of the transaction as they are.                            *)
(***************************************************************************)
C30_SetMeetup ==
    [][\A r \in Requests :
          /\ Begins(r) =>
                 LET q == req'[r] IN
                 (/\ Proper(q) /\ q.kind = "setMeetup"
                  /\ q.caller \in {tx[q.tid].buyerId, tx[q.tid].sellerId})
                 => IF tx[q.tid].status \in {"REQUESTED", "ACCEPTED"}
                    THEN pc'[r] = "write"
                    ELSE Rejects(r, Response(400, "InvalidState", tx[q.tid].status))
          /\ Succeeds(r, "setMeetup") =>
                 LET t == req[r].tid IN
                 tx'[t] = [tx[t] EXCEPT !.status = "MEETING",
                                        !.meetupLocation = req[r].arg]]_vars

\* a setMeetup has set the location, and a later setMeetup by the buyer on
\* the MEETING transaction has been answered 400
C30_Witness ==
    \E r \in Requests :
        /\ pc[r] = "done" /\ req[r].kind = "setMeetup" /\ req[r].caller = "A"
        /\ resp[r] = Response(400, "InvalidState", "MEETING")
        /\ tx["t1"].status = "MEETING" /\ tx["t1"].meetupLocation \in Locations

(***************************************************************************)
(* The seller's statistics over a range of histories: a transaction that   *)
(* was paid, a seller with any cancellation rate n/m (m <= MaxDen) and any *)
(* number of completed deals below MaxDeals, and markReceived calls made   *)
(* one at a time.                                                          *)
(***************************************************************************)
MaxDen == 3

Rates == {Rat(n, m) : <<n, m>> \in {q \in (0..MaxDen) \X (1..MaxDen) : q[1] <= q[2]}}

StatsInits ==
    {UserRow("VERIFIED", 3, d, c, getEarnedBadges(d, 3, c)) :
        <<d, c>> \in (0..(MaxDeals - 1)) \X Rates}

PaidRow(t) ==
    [TxRow(t, "PAID") EXCEPT !.paymentId = "pay_1",
                             !.countdownStart = 0,
                             !.countdownEnd = MEETUP_TIMEOUT_HOURS * MsPerHour]

InitStats ==
    /\ ClientInit /\ withParties = FALSE
    /\ tx = [t \in TxIds |-> PaidRow(t)]
    /\ item = [i \in ItemIds |-> "AVAILABLE"]
    /\ \E b \in StatsInits :
           user = [u \in Users |-> IF u = "B" THEN b ELSE BuyerInit]
    /\ messages = <<>>
    /\ now = 0
    /\ pc = [r \in Requests |-> "idle"]
    /\ req = [r \in Requests |-> NoReq]
    /\ snap = [r \in Requests |-> NoSnap]
    /\ local = [r \in Requests |-> NoLocal]
    /\ resp = [r \in Requests |-> NoResp]
    /\ received = {}

NextStats ==
    \E r \in Requests :
        \/ Alone(r) /\ MarkReceivedBegin(r)
        \/ MarkReceivedUpdateTransaction(r)
        \/ MarkReceivedUpdateItem(r)
        \/ MarkReceivedUpdateSeller(r)
        \/ MarkReceivedUpdateBuyer(r)
        \/ Return(r)

SpecStats == InitStats /\ [][NextStats]_vars

\* a/b <= c/d for fractions with positive denominators
RateLeq(a, b) == a[1] * b[2] <= b[1] * a[2]

(***************************************************************************)
(* C31.  A successful markReceived leaves the seller with the cancellation *)
(* rate  rate * deals / (deals + 1)  of the rate and deal count the seller *)
(* had before the call; for a rate in [0,1] the new rate is in [0,1], is   *)
(* not greater than the old one, and is 0 when there were no deals.        *)
(***************************************************************************)
C31_CancellationRateScaled ==
    [][\A r \in Requests :
          Succeeds(r, "markReceived") =>
              LET is == user'[SellerOf(req[r].tid)].cancellationRate
                  old == snap[r].seller.cancellationRate
                  deals == snap[r].seller.completedDeals
              IN  /\ is = Rat(old[1] * deals, old[2] * (deals + 1))
                  /\ RateLeq(<<0, 1>>, is) /\ RateLeq(is, <<1, 1>>)
                  /\ RateLeq(is, old)
                  /\ (deals = 0 => is = <<0, 1>>)]_vars

\* a seller with one deal and two thirds of the requests cancelled ends a
\* successful markReceived with two deals and a rate of one third
C31_Witness ==
    \E r \in Requests :
        /\ pc[r] = "done" /\ req[r].kind = "markReceived" /\ resp[r].code = 200
        /\ snap[r].seller.completedDeals = 1
        /\ snap[r].seller.cancellationRate = <<2, 3>>
        /\ user["B"].completedDeals = 2
        /\ user["B"].cancellationRate = <<1, 3>>

(***************************************************************************)
(* GET /api/transactions/[id]/messages/new asked directly, over stores     *)
(* large enough to fill a page: up to MaxOld messages of t1 at instant 0,  *)
(* then up to Take + MaxOver messages of t1 at instant Window + 1, A and B *)
(* writing in turn, and with or without a message of t2 after each group.  *)
(***************************************************************************)
MaxOld == 2

Stored(transactionId, position, createdAt) ==
    [transactionId |-> transactionId,
     senderId |-> IF position % 2 = 1 THEN "A" ELSE "B",
     content |-> <<"h", "i">>, isAI |-> FALSE, createdAt |-> createdAt]

Store(older, newer, other) ==
    LET aside(createdAt) == IF other THEN <<Stored("t2", 1, createdAt)>> ELSE <<>>
    IN  [i \in 1..older |-> Stored("t1", i, 0)] \o aside(0)
            \o [i \in 1..newer |-> Stored("t1", older + i, Window + 1)]
            \o aside(Window + 1)

InitPage ==
    /\ ClientInit /\ withParties = FALSE
    /\ tx = [t \in ChatIds |-> TxRow(t, "ACCEPTED")]
    /\ item = [i \in ItemIds |-> "AVAILABLE"]
    /\ user = [u \in Users |-> BuyerInit]
    /\ \E older \in 0..MaxOld, newer \in 0..(Take + MaxOver), other \in BOOLEAN :
           messages = Store(older, newer, other)
    /\ now = Window + 1
    /\ pc = [r \in Requests |-> "idle"]
    /\ req = [r \in Requests |-> NoReq]
    /\ snap = [r \in Requests |-> NoSnap]
    /\ local = [r \in Requests |-> NoLocal]
    /\ resp = [r \in Requests |-> NoResp]
    /\ received = {}

\* the response of the route: an error body, or the messages found
GetNewMessages(userId, transactionId, afterTimestamp) ==
    IF userId = NoUser THEN Response(401, "Unauthorized", Null)
    ELSE IF transactionId \notin DOMAIN tx THEN Response(404, "NotFound", Null)
    ELSE IF tx[transactionId].buyerId # userId /\ tx[transactionId].sellerId # userId
    THEN Response(403, "Forbidden", Null)
    ELSE [code |-> 200, error |-> Null, status |-> Null,
          messages |-> NewMessages(transactionId, afterTimestamp)]

NewMessagesGet(r) ==
    /\ At(r, "idle")
    /\ \E userId \in Users \cup {NoUser}, transactionId \in ChatIds \cup {NoTx},
          afterTimestamp \in Instants \cup {NoTime} :
           /\ req' = [req EXCEPT ![r] = Request("newMessages", userId, transactionId,
                                                TRUE, afterTimestamp)]
           /\ pc' = [pc EXCEPT ![r] = "done"]
           /\ resp' = [resp EXCEPT ![r] = GetNewMessages(userId, transactionId,
                                                         afterTimestamp)]
    /\ UNCHANGED <<tx, item, user, messages, now, snap, local, received, client>>

NextPage == NewMessagesGet("r1") \/ Return("r1")

SpecPage == InitPage /\ [][NextPage]_vars

\* the positions of the messages a request for new messages asks for
Wanted(q) ==
    {i \in 1..Len(messages) :
        /\ messages[i].transactionId = q.tid
        /\ q.arg # NoTime => messages[i].createdAt > q.arg - Window}

OfParty(m) ==
    /\ m.transactionId \in DOMAIN tx
    /\ m.senderId \in {tx[m.transactionId].buyerId, tx[m.transactionId].sellerId}

(***************************************************************************)
(* C33.  Every stored message is of one existing transaction and its       *)
(* sender is that transaction's buyer or seller.  A message is created     *)
(* only by a sendMessage call of a party, with the caller as sender, and   *)
(* the step leaves transactions, items and users as they are; a party's    *)
(* call is let through whatever the status of the transaction.             *)
(***************************************************************************)
C33_MessagesOfParties ==
    [][/\ \A i \in 1..Len(messages') : OfParty(messages'[i])
       /\ messages' # messages =>
              \E r \in Requests :
                  /\ req[r].kind = "sendMessage" /\ pc[r] = "write" /\ pc'[r] = "done"
                  /\ resp'[r].code = 201
                  /\ Len(messages') = Len(messages) + 1
                  /\ SubSeq(messages', 1, Len(messages)) = messages
                  /\ messages'[Len(messages')].transactionId = req[r].tid
                  /\ messages'[Len(messages')].senderId = req[r].caller
                  /\ messages'[Len(messages')].content = req[r].arg
                  /\ req[r].caller \in {tx[req[r].tid].buyerId, tx[req[r].tid].sellerId}
                  /\ tx' = tx /\ item' = item /\ user' = user
       /\ \A r \in Requests :
              (Begins(r) /\ req'[r].kind = "sendMessage" /\ Proper(req'[r])
                   /\ req'[r].caller \in {tx[req'[r].tid].buyerId, tx[req'[r].tid].sellerId})
                  => pc'[r] = "write"]_vars

\* the seller writes in a transaction that was cancelled
C33_Witness ==
    \E r \in Requests :
        /\ pc[r] = "done" /\ req[r].kind = "sendMessage" /\ resp[r].code = 201
        /\ req[r].caller = "B" /\ tx["t1"].status = "CANCELLED"
        /\ Len(messages) = 1 /\ messages[1].senderId = "B"
        /\ messages[1].transactionId = "t1"

(***************************************************************************)
(* A transaction that was requested and that its seller never touches:     *)
(* every call is made by the buyer, by a stranger or by nobody, one at a   *)
(* time.                                                                   *)
(***************************************************************************)
InitBuyer ==
    /\ ClientInit /\ withParties = FALSE
    /\ tx = [t \in TxIds |-> TxRow(t, "REQUESTED")]
    /\ item = [i \in ItemIds |-> "AVAILABLE"]
    /\ \E b \in SellerInits :
           user = [u \in Users |-> IF u = "B" THEN b ELSE BuyerInit]
    /\ messages = <<>>
    /\ now = 0
    /\ pc = [r \in Requests |-> "idle"]
    /\ req = [r \in Requests |-> NoReq]
    /\ snap = [r \in Requests |-> NoSnap]
    /\ local = [r \in Requests |-> NoLocal]
    /\ resp = [r \in Requests |-> NoResp]
    /\ received = {}

NotTheSeller == \A r \in Requests : \A t \in TxIds : req'[r].caller # SellerOf(t)

NextBuyer ==
    \E r \in Requests :
        \/ Alone(r) /\ PayBegin(r) /\ NotTheSeller
        \/ Alone(r) /\ MeetupBegin(r) /\ NotTheSeller
        \/ Alone(r) /\ ConfirmDeliveryBegin(r) /\ NotTheSeller
        \/ Alone(r) /\ MarkPaidBegin(r) /\ NotTheSeller
        \/ Alone(r) /\ MarkReceivedBegin(r) /\ NotTheSeller
        \/ MeetupUpdate(r) \/ MarkPaidUpdate(r)
        \/ MarkReceivedUpdateTransaction(r) \/ MarkReceivedUpdateItem(r)
        \/ MarkReceivedUpdateSeller(r) \/ MarkReceivedUpdateBuyer(r)
        \/ StoreFails(r) \/ Return(r)

SpecBuyer == InitBuyer /\ [][NextBuyer]_vars

(***************************************************************************)
(* C34.  A transaction the seller has not acted on is not completed: with  *)
(* no call made by the seller, a REQUESTED transaction never becomes       *)
(* COMPLETED, its item is never SOLD and the seller's completedDeals stay  *)
(* as they were.                                                           *)
(***************************************************************************)
C34_NotCompletedWithoutSeller ==
    \A t \in TxIds :
        /\ tx[t].status # "COMPLETED"
        /\ item[ItemOf(t)] # "SOLD"
        /\ \E b \in SellerInits : user[SellerOf(t)] = b

(***************************************************************************)
(* C35.  The payment record is written once: when a transaction holds the  *)
(* paymentId and the countdown a successful pay stored, no step changes    *)
(* paymentId, countdownStart or countdownEnd, and no pay succeeds on it    *)
(* again.                                                                  *)
(***************************************************************************)
C35_PaymentWrittenOnce ==
    [][\A t \in TxIds :
          tx[t].paymentId \in PaymentIds =>
              /\ tx'[t].paymentId = tx[t].paymentId
              /\ tx'[t].countdownStart = tx[t].countdownStart
              /\ tx'[t].countdownEnd = tx[t].countdownEnd
              /\ \A r \in Requests : req[r].tid = t => ~Succeeds(r, "pay")]_vars

(***************************************************************************)
(* Two paid transactions of the same buyer and seller, on two items, and   *)
(* mark-received asked by the buyer for either, the handlers interleaved;  *)
(* every user starts without a completed deal and no write fails.          *)
(***************************************************************************)
SharedItemOf(t) == IF t = "t1" THEN "i1" ELSE "i2"

InitShared ==
    /\ ClientInit /\ withParties = FALSE
    /\ tx = [t \in ChatIds |-> [PaidRow(t) EXCEPT !.itemId = SharedItemOf(t)]]
    /\ item = [i \in {SharedItemOf(t) : t \in ChatIds} |-> "AVAILABLE"]
    /\ user = [u \in Users |->
                   IF u = "B" THEN UserRow("VERIFIED", 3, 0, <<0, 1>>,
                                           getEarnedBadges(0, 3, <<0, 1>>))
                   ELSE BuyerInit]
    /\ messages = <<>>
    /\ now = 0
    /\ pc = [r \in Requests |-> "idle"]
    /\ req = [r \in Requests |-> NoReq]
    /\ snap = [r \in Requests |-> NoSnap]
    /\ local = [r \in Requests |-> NoLocal]
    /\ resp = [r \in Requests |-> NoResp]
    /\ received = {}

NextShared ==
    \E r \in Requests :
        \/ \E t \in ChatIds :
               MarkReceivedAsked(r, [caller |-> BuyerOf(t), tid |-> t, wellFormed |-> TRUE])
        \/ MarkReceivedUpdateTransaction(r)
        \/ MarkReceivedUpdateItem(r)
        \/ MarkReceivedUpdateSeller(r)
        \/ MarkReceivedUpdateBuyer(r)
        \/ Return(r)

SpecShared == InitShared /\ [][NextShared]_vars

\* the COMPLETED transactions user u is a party of
CompletedOf(u) ==
    {t \in DOMAIN tx : tx[t].status = "COMPLETED" /\ u \in {tx[t].buyerId, tx[t].sellerId}}

(***************************************************************************)
(* C36.  When no request is under way, every user's completedDeals is the  *)
(* number the user started with (none) plus the number of COMPLETED        *)
(* transactions the user is buyer or seller of, also after two             *)
(* mark-received calls for two transactions of the same parties ran        *)
(* concurrently.                                                           *)
(***************************************************************************)
C36_DealsCountCompleted ==
    Quiescent => \A u \in Users : user[u].completedDeals = Cardinality(CompletedOf(u))

(***************************************************************************)
(* Overlapping ticks: B logs in and stays, the tab stays visible, no chat  *)
(* is opened and every fetch is answered 200; A and B write up to MaxBatch *)
(* messages in t1; the interval starts a tick whether or not the tick      *)
(* before has ended, and the responses resolve in any order.               *)
(***************************************************************************)
NextOverlap ==
    \/ \E k \in Ticks : start("B", k)
    \/ /\ notifier.isRunning /\ Len(messages) < MaxBatch
       /\ \E senderId \in {"A", "B"}, content \in Contents : Posted(senderId, "t1", content)
    \/ \E k \in Ticks :
           \/ IntervalFires(k)
           \/ TickList(k)
           \/ ServeMessages(k) \/ TickMessages(k) \/ TickSenderThrows(k)

SpecOverlap == InitPoller /\ [][NextOverlap]_vars

(***************************************************************************)
(* C37.  While the notifier runs for one user, between a start and the     *)
(* next stop, no step lowers the last seen instant of a transaction or     *)
(* lastCheckTime, also when two ticks overlap and the response of the      *)
(* earlier one is processed after that of the later one.                   *)
(***************************************************************************)
C37_WatermarksNeverDecrease ==
    [][(/\ notifier.isRunning /\ notifier'.isRunning
        /\ notifier'.currentUserId = notifier.currentUserId) =>
           /\ \A t \in ChatIds :
                  notifier'.lastMessageTimestamps[t] >= notifier.lastMessageTimestamps[t]
           /\ notifier'.lastCheckTime >= notifier.lastCheckTime]_vars

(***************************************************************************)
(* The chat of t1 opened and closed: B logs in and stays, one tick at a    *)
(* time, every fetch answered 200.  B writes at any time; A writes only    *)
(* while B has the chat open, so every message of A arrived while t1 was   *)
(* suppressed.                                                             *)
(***************************************************************************)
NextSuppress ==
    \/ start("B", "k1")
    \/ /\ notifier.isRunning /\ Len(messages) < MaxBatch
       /\ \E content \in Contents : Posted("B", "t1", content)
    \/ /\ notifier.isRunning /\ Len(messages) < MaxBatch
       /\ "t1" \in notifier.activeTransactionIds
       /\ \E content \in Contents : Posted("A", "t1", content)
    \/ setActiveTransaction("t1")
    \/ removeActiveTransaction("t1")
    \/ IntervalFires("k1")
    \/ TickList("k1")
    \/ ServeMessages("k1") \/ TickMessages("k1") \/ TickSenderThrows("k1")

SpecSuppress == InitPoller /\ [][NextSuppress]_vars

C39_PaidHasPaymentId ==
    [][\A t \in DOMAIN tx :
          /\ tx'[t].status \in {"PAID", "COMPLETED"} => tx'[t].paymentId # Null
          /\ (tx'[t].status = "PAID" /\ tx[t].status # "PAID") =>
                 \E r \in Requests :
                     /\ req[r].tid = t /\ req[r].kind \in {"pay", "markPaid"}
                     /\ pc[r] = "write" /\ pc'[r] = "done"
                     /\ tx'[t].paymentId =
                            (IF req[r].kind = "pay" THEN req[r].arg ELSE "physical_payment")]_vars

\* a transaction completed after a payment in person
C39_Witness ==
    /\ tx["t1"].status = "COMPLETED" /\ tx["t1"].paymentId = "physical_payment"
    /\ tx["t1"].meetupLocation = "gate"

(***************************************************************************)
(* A chat with a history: when B logs in, at instant Window + 1 or later,  *)
(* t1 holds a message of A created at instant 0, more than 500 ms before,  *)
(* and a message of A or of B created half a window after it, less than    *)
(* 500 ms before.  The tab stays visible, no chat is opened, every fetch   *)
(* is answered 200, and A and B may write one message more.                *)
(***************************************************************************)
Midway == Window \div 2

EarliestStart == Window + 1

InitHistory ==
    /\ ClientInit /\ withParties \in BOOLEAN
    /\ tx = [t \in TxIds |-> TxRow(t, "ACCEPTED")]
    /\ item = [i \in ItemIds |-> "AVAILABLE"]
    /\ user = [u \in Users |-> BuyerInit]
    /\ \E senderId \in {"A", "B"} :
           messages = <<[Stored("t1", 1, 0) EXCEPT !.senderId = "A"],
                        [Stored("t1", 2, Midway) EXCEPT !.senderId = senderId]>>
    /\ now = EarliestStart
    /\ pc = [r \in Requests |-> "idle"]
    /\ req = [r \in Requests |-> NoReq]
    /\ snap = [r \in Requests |-> NoSnap]
    /\ local = [r \in Requests |-> NoLocal]
    /\ resp = [r \in Requests |-> NoResp]
    /\ received = {}

NextHistory ==
    \/ \E k \in Ticks : start("B", k)
    \/ /\ notifier.isRunning /\ Len(messages) < MaxBatch + MaxMessages
       /\ \E senderId \in {"A", "B"}, content \in Contents : Posted(senderId, "t1", content)
    \/ \E k \in Ticks :
           \/ IntervalFires(k)
           \/ TickList(k)
           \/ ServeMessages(k) \/ TickMessages(k) \/ TickSenderThrows(k)

SpecHistory == InitHistory /\ [][NextHistory]_vars

=============================================================================
